---- MODULE Spec2Model ----
(***************************************************************************)
(* Model of the agentic pipeline of bensalahRyma/agentic-ai-project:       *)
(*   - OpenAICompatibleClient.chat  (bounded retry loop),                  *)
(*   - BaseAgent.ask / mock_response / ask_json (offline fallback and the  *)
(*     two-tier JSON extraction),                                          *)
(*   - the three stage agents and Orchestrator.run (sequencing, saving).   *)
(*                                                                         *)
(* Texts are sequences of atoms.  An atom is either one character          *)
(* ("{", "}", "[", "]", ",", ":", the double quote, " ", "\n", "1", "x")   *)
(* or an indivisible word that stands for the run of characters it spells  *)
(* ("files", "app", "Transform this user story", ...).  Concatenating the  *)
(* atoms of a text gives the Python string it stands for.                  *)
(***************************************************************************)
EXTENDS Integers, Sequences, FiniteSets, TLC

VARIABLES
    ex_text,      \* SpecExtract: the text BaseAgent.ask returned
    ex_result,    \* SpecExtract: outcome of the parsing step of ask_json
    ex_pc,        \* SpecExtract: "ready" | "done"
    env,          \* whether LLM_BASE_URL and LLM_API_KEY are set and not blank
    cfg,          \* LLMConfig: [max_retries]
    chat,         \* SpecChat: locals of the running OpenAICompatibleClient.chat call
    chat_log,     \* SpecChat: the responses to the POST requests issued so far
    pc,           \* Orchestrator.run: the step to execute next, "done" or "failed"
    run,          \* number of the current call of Orchestrator.run
    story,        \* user_story
    spec,         \* run's local spec
    code_files,   \* run's local code_files, a sequence of [path, content]
    code_written, \* run's local code_written
    test_files,   \* run's local test_files
    tests_written,\* run's local tests_written
    err,          \* class of the exception that left run, "None" if none
    disk,         \* the file system: resolved location -> content
    trace,        \* history: the steps of this run, with what each was given
    replay,       \* history: outcome of client.chat per stage in the first run
    first_disk    \* history: the disk when the first run ended

-----------------------------------------------------------------------------
(* Bounds and program constants *)

MaxTextLen == 4

MaxRetries == 2

MaxRuns == 2

DefaultMaxRetries == 2

PreviewLen == 400

-----------------------------------------------------------------------------
(* Atoms *)

Quote == "\""

Ws == {" ", "\n"}

ExtractAlphabet == {"{", "}", "[", "]", Quote, "1", "x", " "}

Take(t, n) == SubSeq(t, 1, IF Len(t) < n THEN Len(t) ELSE n)

At(t, i) == IF i >= 1 /\ i <= Len(t) THEN t[i] ELSE ""

-----------------------------------------------------------------------------
(* json.loads on atom sequences.  A scan returns the index just after the  *)
(* construct it read, or 0 when the decoder raises JSONDecodeError.        *)

RECURSIVE SkipWs(_, _)
SkipWs(t, i) == IF i <= Len(t) /\ t[i] \in Ws THEN SkipWs(t, i + 1) ELSE i

RECURSIVE ScanString(_, _)
ScanString(t, i) ==
    IF i > Len(t) THEN 0
    ELSE IF t[i] = Quote THEN i + 1
    ELSE IF t[i] = "\n" THEN 0
    ELSE ScanString(t, i + 1)

RECURSIVE ScanNumber(_, _)
ScanNumber(t, i) == IF At(t, i) = "1" THEN ScanNumber(t, i + 1) ELSE i

RECURSIVE ParseValue(_, _), ParseElems(_, _), ParseMembers(_, _)
ParseValue(t, i) ==
    LET c == At(t, i) IN
    CASE c = "{" -> LET j == SkipWs(t, i + 1) IN
                    IF At(t, j) = "}" THEN j + 1 ELSE ParseMembers(t, j)
      [] c = "[" -> LET j == SkipWs(t, i + 1) IN
                    IF At(t, j) = "]" THEN j + 1 ELSE ParseElems(t, j)
      [] c = Quote -> ScanString(t, i + 1)
      [] c = "1" -> ScanNumber(t, i)
      [] OTHER -> 0

ParseElems(t, j) ==
    LET e == ParseValue(t, j) IN
    IF e = 0 THEN 0
    ELSE LET n == SkipWs(t, e) IN
         IF At(t, n) = "]" THEN n + 1
         ELSE IF At(t, n) = "," THEN ParseElems(t, SkipWs(t, n + 1))
         ELSE 0

ParseMembers(t, j) ==
    IF At(t, j) # Quote THEN 0
    ELSE LET k == ScanString(t, j + 1) IN
         IF k = 0 THEN 0
         ELSE LET c == SkipWs(t, k) IN
              IF At(t, c) # ":" THEN 0
              ELSE LET e == ParseValue(t, SkipWs(t, c + 1)) IN
                   IF e = 0 THEN 0
                   ELSE LET n == SkipWs(t, e) IN
                        IF At(t, n) = "}" THEN n + 1
                        ELSE IF At(t, n) = ","
                             THEN ParseMembers(t, SkipWs(t, n + 1))
                        ELSE 0

(* How many double quotes precede each index of t: an atom is inside a    *)
(* string when that number is odd                                          *)
QuotesBefore(t) ==
    [i \in 1..Len(t) |-> Cardinality({j \in 1..(i - 1) : t[j] = Quote})]

(* The document with the whitespace between tokens dropped (whitespace     *)
(* inside strings kept)                                                    *)
Compact(t) ==
    LET q == QuotesBefore(t)
        kept == SelectSeq([i \in 1..Len(t) |-> i],
                          LAMBDA i : ~(t[i] \in Ws /\ q[i] % 2 = 0))
    IN [k \in 1..Len(kept) |-> t[kept[k]]]

Str(w) == <<Quote>> \o w \o <<Quote>>

RECURSIVE JoinComma(_)
JoinComma(items) ==
    IF items = <<>> THEN <<>>
    ELSE IF Len(items) = 1 THEN items[1]
    ELSE items[1] \o <<",">> \o JoinComma(Tail(items))

JArray(items) == <<"[">> \o JoinComma(items) \o <<"]">>

(* members: a sequence of <<key atoms, value text>> *)
JObject(members) ==
    <<"{">>
    \o JoinComma([i \in 1..Len(members) |->
                    Str(members[i][1]) \o <<":">> \o members[i][2]])
    \o <<"}">>

IsDict(v) == At(v, 1) = "{"

IsList(v) == At(v, 1) = "["

IsStr(v) == At(v, 1) = Quote

(* The characters of a decoded string *)
Unquote(v) == SubSeq(v, 2, Len(v) - 1)

(* The members of a decoded object, from the key that opens at index i *)
RECURSIVE MembersFrom(_, _)
MembersFrom(v, i) ==
    IF At(v, i) # Quote THEN <<>>
    ELSE LET k == ScanString(v, i + 1)
             e == ParseValue(v, k + 1)
         IN <<[key |-> SubSeq(v, i + 1, k - 2), val |-> SubSeq(v, k + 1, e - 1)]>>
            \o (IF At(v, e) = "," THEN MembersFrom(v, e + 1) ELSE <<>>)

Members(v) == MembersFrom(v, 2)

(* The items of a decoded list, from the item that starts at index i *)
RECURSIVE ElemsFrom(_, _)
ElemsFrom(v, i) ==
    IF At(v, i) = "]" THEN <<>>
    ELSE LET e == ParseValue(v, i) IN
         <<SubSeq(v, i, e - 1)>>
         \o (IF At(v, e) = "," THEN ElemsFrom(v, e + 1) ELSE <<>>)

Elems(v) == ElemsFrom(v, 2)

(* key in d, for the members ms of a decoded object d *)
HasKey(ms, key) == \E i \in 1..Len(ms) : ms[i].key = key

(* d[key]: of duplicate keys in the document the last one counts *)
Lookup(ms, key) ==
    LET last == CHOOSE i \in 1..Len(ms) :
                   ms[i].key = key /\ \A j \in (i + 1)..Len(ms) : ms[j].key # key
    IN ms[last].val

(* d.get(key, default) *)
Get(ms, key, default) == IF HasKey(ms, key) THEN Lookup(ms, key) ELSE default

(* The dict the decoder builds from the members of an object: one member   *)
(* per key, at the place of the key's first occurrence, with the value of  *)
(* its last occurrence; lists and dicts inside are built the same way      *)
RECURSIVE Decoded(_), DecodedDict(_), DecodedList(_)
Decoded(v) ==
    IF IsDict(v) THEN DecodedDict(Members(v))
    ELSE IF IsList(v) THEN DecodedList(Elems(v))
    ELSE v

DecodedDict(ms) ==
    LET firsts == SelectSeq([i \in 1..Len(ms) |-> i],
                            LAMBDA i : \A j \in 1..(i - 1) : ms[j].key # ms[i].key)
    IN JObject([k \in 1..Len(firsts) |->
                  <<ms[firsts[k]].key, Decoded(Lookup(ms, ms[firsts[k]].key))>>])

DecodedList(es) == JArray([k \in 1..Len(es) |-> Decoded(es[k])])

(* The decoded value, written canonically *)
Canon(t) == Decoded(Compact(t))

Loads(t) ==
    LET i == SkipWs(t, 1)
        e == ParseValue(t, i)
    IN IF e # 0 /\ SkipWs(t, e) = Len(t) + 1
       THEN [ok |-> TRUE, value |-> Canon(SubSeq(t, i, e - 1))]
       ELSE [ok |-> FALSE, value |-> <<>>]

-----------------------------------------------------------------------------
(* str.strip, str.find, str.rfind (1-based, 0 for Python's -1) *)

RECURSIVE LStrip(_)
LStrip(t) == IF t # <<>> /\ Head(t) \in Ws THEN LStrip(Tail(t)) ELSE t

RECURSIVE RStrip(_)
RStrip(t) ==
    IF t # <<>> /\ t[Len(t)] \in Ws THEN RStrip(SubSeq(t, 1, Len(t) - 1)) ELSE t

Strip(t) == RStrip(LStrip(t))

Find(t, c) ==
    IF \E i \in 1..Len(t) : t[i] = c
    THEN CHOOSE i \in 1..Len(t) : t[i] = c /\ \A j \in 1..(i - 1) : t[j] # c
    ELSE 0

RFind(t, c) ==
    IF \E i \in 1..Len(t) : t[i] = c
    THEN CHOOSE i \in 1..Len(t) : t[i] = c /\ \A j \in (i + 1)..Len(t) : t[j] # c
    ELSE 0

-----------------------------------------------------------------------------
(* Outcome of a call: a returned value or a raised exception *)

Return(v) == [kind |-> "return", value |-> v, cls |-> "", preview |-> <<>>]

Raise(c, p) == [kind |-> "raise", value |-> <<>>, cls |-> c, preview |-> p]

(* issubclass(cls, ValueError): json.JSONDecodeError derives from it *)
IsValueError(c) == c \in {"ValueError", "JSONDecodeError"}

(* The slice text[start : end + 1] of the fallback *)
Snippet(text, start, end) == SubSeq(text, start, end)

(* BaseAgent.ask_json from the text that ask returned *)
ParseReply(reply) ==
    LET text == Strip(reply)
        direct == Loads(text)
    IN IF direct.ok THEN Return(direct.value)
       ELSE LET start == Find(text, "{")
                end == RFind(text, "}")
            IN IF start # 0 /\ end # 0 /\ end > start
               THEN LET inner == Loads(Snippet(text, start, end)) IN
                    IF inner.ok THEN Return(inner.value)
                    ELSE Raise("JSONDecodeError", <<>>)
               ELSE Raise("ValueError", Take(text, PreviewLen))

-----------------------------------------------------------------------------
(* OpenAICompatibleClient.chat                                             *)
(*                                                                         *)
(* What one requests.post call can bring: a transport exception (net is    *)
(* its class), or a response with a status and a body.  The body is        *)
(*   "undecodable"   not JSON: resp.json() raises JSONDecodeError,         *)
(*   "not_object"    JSON that cannot be indexed by "choices" ([] or 1),   *)
(*   "missing_key"   an object without "choices" ({}) or a choice without  *)
(*                   "message" or "content",                               *)
(*   "empty_choices" {"choices": []},                                      *)
(*   "content"       data["choices"][0]["message"]["content"] evaluates,   *)
(*                   to the value content.                                 *)
(* A content is a Python value: a str with its text, or a value of         *)
(* another type (null, a number, a list).                                  *)

PyStr(t) == [type |-> "str", text |-> t]

NotStr(type) == [type |-> type, text |-> <<>>]

NoContent == NotStr("unset")

Response(net, status, body, content) ==
    [net |-> net, status |-> status, body |-> body, content |-> content]

IllFormedBodies == {"undecodable", "not_object", "missing_key", "empty_choices"}

FailedResponses ==
    {Response(n, 0, "none", NoContent) : n \in {"Timeout", "ConnectionError"}}
    \cup {Response("ok", st, "undecodable", NoContent) : st \in {400, 500}}
    \cup {Response("ok", 200, b, NoContent) : b \in IllFormedBodies}

Completions(texts) == {Response("ok", 200, "content", PyStr(t)) : t \in texts}

(* Responses whose content is null or a number *)
OddCompletions ==
    {Response("ok", 200, "content", NotStr(ty)) : ty \in {"NoneType", "int"}}

NoError == [cls |-> "None", status |-> 0]

(* The exception the body of the try raises for response o, NoError if none *)
AttemptError(o) ==
    IF o.net # "ok" THEN [cls |-> o.net, status |-> 0]
    ELSE IF o.status >= 400 THEN [cls |-> "LLMError", status |-> o.status]
    ELSE CASE o.body = "undecodable" -> [cls |-> "JSONDecodeError", status |-> o.status]
           [] o.body = "not_object" -> [cls |-> "TypeError", status |-> o.status]
           [] o.body = "missing_key" -> [cls |-> "KeyError", status |-> o.status]
           [] o.body = "empty_choices" -> [cls |-> "IndexError", status |-> o.status]
           [] OTHER -> NoError

(* Slip: range(max_retries) *)
LoopBoundShort(n) == n

(* range(self.cfg.max_retries + 1) *)
LoopBound(n) == n + 1

Exhausted(last) ==
    [attempt |-> 0, state |-> "raised", ret |-> NoContent, last_err |-> last,
     raised |-> [cls |-> "LLMError", cause |-> last]]

(* Entry of chat: last_err = None, and the for loop is entered or skipped *)
ChatStart(n) ==
    IF LoopBound(n) <= 0 THEN Exhausted(NoError)
    ELSE [attempt |-> 0, state |-> "loop", ret |-> NoContent, last_err |-> NoError,
          raised |-> [cls |-> "None", cause |-> NoError]]

(* One iteration of the for loop on response o, with the raise after the   *)
(* loop when this was the last iteration                                   *)
ChatStep(st, n, o) ==
    LET e == AttemptError(o) IN
    IF e = NoError
    THEN [st EXCEPT !.state = "returned", !.ret = o.content]
    ELSE IF st.attempt + 1 >= LoopBound(n)
         THEN [Exhausted(e) EXCEPT !.attempt = st.attempt + 1]
         ELSE [st EXCEPT !.attempt = st.attempt + 1, !.last_err = e]

(* A whole call of chat against the scripted responses os *)
RECURSIVE ChatRun(_, _, _)
ChatRun(st, n, os) ==
    IF st.state # "loop" \/ os = <<>> THEN st
    ELSE ChatRun(ChatStep(st, n, Head(os)), n, Tail(os))

ChatCall(n, os) == ChatRun(ChatStart(n), n, os)

ChatIdle ==
    [attempt |-> 0, state |-> "idle", ret |-> NoContent, last_err |-> NoError,
     raised |-> [cls |-> "None", cause |-> NoError]]

ChatTexts == {<<"{", "}">>, <<"x">>}

InitChat ==
    /\ cfg \in [max_retries : -1..MaxRetries]
    /\ chat = ChatIdle
    /\ chat_log = <<>>

ChatBegin ==
    /\ chat.state = "idle"
    /\ chat' = ChatStart(cfg.max_retries)
    /\ UNCHANGED <<cfg, chat_log>>

ChatPost ==
    /\ chat.state = "loop"
    /\ \E o \in FailedResponses \cup Completions(ChatTexts) \cup OddCompletions :
          /\ chat' = ChatStep(chat, cfg.max_retries, o)
          /\ chat_log' = Append(chat_log, o)
    /\ UNCHANGED cfg

-----------------------------------------------------------------------------
(* json.dumps *)

Spaces(n) == [i \in 1..n |-> " "]

RECURSIVE Flatten(_)
Flatten(ss) ==
    IF Len(ss) = 0 THEN <<>>
    ELSE IF Len(ss) = 1 THEN ss[1]
    ELSE LET h == Len(ss) \div 2 IN
         Flatten(SubSeq(ss, 1, h)) \o Flatten(SubSeq(ss, h + 1, Len(ss)))

Opens == {"{", "["}

Closes == {"}", "]"}

(* json.dumps(value, indent=2, ensure_ascii=False) of a decoded value:     *)
(* each atom with the newline and indentation the encoder puts around it   *)
Dumps(v) ==
    LET q == QuotesBefore(v)
        token == [i \in 1..Len(v) |-> q[i] % 2 = 0 /\ v[i] # Quote]
        depth == [i \in 1..Len(v) |->
                    Cardinality({j \in 1..(i - 1) : token[j] /\ v[j] \in Opens})
                    - Cardinality({j \in 1..(i - 1) : token[j] /\ v[j] \in Closes})]
        piece(i) ==
            LET c == v[i] IN
            IF ~token[i] THEN <<c>>
            ELSE IF c \in Opens THEN
                 IF At(v, i + 1) \in Closes THEN <<c>>
                 ELSE <<c, "\n">> \o Spaces(2 * (depth[i] + 1))
            ELSE IF c \in Closes THEN
                 IF At(v, i - 1) \in Opens /\ token[i - 1] THEN <<c>>
                 ELSE <<"\n">> \o Spaces(2 * (depth[i] - 1)) \o <<c>>
            ELSE IF c = "," THEN <<",", "\n">> \o Spaces(2 * depth[i])
            ELSE IF c = ":" THEN <<":", " ">>
            ELSE <<c>>
    IN Flatten([i \in 1..Len(v) |-> piece(i)])

Contains(t, a) == \E i \in 1..Len(t) : t[i] = a

-----------------------------------------------------------------------------
(* BaseAgent.ask and BaseAgent.mock_response *)

ReqMarker == "Transform this user story"

CodeMarker == "Generate a minimal FastAPI project"

TestMarker == "Generate pytest tests"

FileEntry(path, content) ==
    JObject(<< <<<<"path">>, Str(path)>>, <<<<"content">>, Str(content)>> >>)

FilesDoc(entries) == JObject(<< <<<<"files">>, JArray(entries)>> >>)

(* The three literals of mock_response, each shortened to a few of its     *)
(* members, with the whitespace that surrounds the literal                 *)
MockSpecText ==
    <<"\n", " ">>
    \o JObject(<< <<<<"title">>, Str(<<"User Management API">>)>>,
                  <<<<"entities">>,
                    JArray(<<JObject(<< <<<<"name">>, Str(<<"User">>)>> >>)>>)>>,
                  <<<<"tech_choice">>,
                    JObject(<< <<<<"framework">>, Str(<<"fastapi">>)>> >>)>> >>)
    \o <<"\n", " ">>

MockCodeText ==
    <<"\n", " ">>
    \o FilesDoc(<<FileEntry(<<"app", "/", "main.py">>, <<"mock main source">>),
                  FileEntry(<<"app", "/", "models.py">>, <<"mock models source">>),
                  FileEntry(<<"app", "/", "routes.py">>, <<"mock routes source">>),
                  FileEntry(<<"requirements.txt">>, <<"mock requirements">>)>>)
    \o <<"\n", " ">>

MockTestText ==
    <<"\n", " ">>
    \o FilesDoc(<<FileEntry(<<"tests", "/", "test_api.py">>, <<"mock test source">>)>>)
    \o <<"\n", " ">>

MockResponse(user_prompt) ==
    IF Contains(user_prompt, ReqMarker) THEN MockSpecText
    ELSE IF Contains(user_prompt, CodeMarker) THEN MockCodeText
    ELSE IF Contains(user_prompt, TestMarker) THEN MockTestText
    ELSE <<"{", "}">>

(* Slip: no except clause around client.chat *)
AskUnguarded(user_prompt, c) ==
    IF ~c.failed THEN Return(c.ret) ELSE Raise("LLMError", <<>>)

(* BaseAgent.ask, c what client.chat came to *)
Ask(user_prompt, c) ==
    IF ~c.failed THEN Return(c.ret)
    ELSE Return(PyStr(MockResponse(user_prompt)))

StrictSuffix == <<"\n", "\n", "IMPORTANT: Return ONLY a valid JSON object.">>

(* Slip: unparseable text is replaced by an empty object *)
ParseOrEmpty(reply) ==
    IF ParseReply(reply).kind = "return" THEN ParseReply(reply)
    ELSE Return(<<"{", "}">>)

(* The try/except of ask_json and the raise after it *)
Extracted(reply) == ParseReply(reply)

(* BaseAgent.ask_json, c what client.chat came to: .strip() is called on   *)
(* whatever ask returned                                                   *)
AskJson(user_prompt, c) ==
    LET got == Ask(user_prompt \o StrictSuffix, c) IN
    IF got.kind = "raise" THEN got
    ELSE IF got.value.type # "str" THEN Raise("AttributeError", <<>>)
    ELSE Extracted(got.value.text)

-----------------------------------------------------------------------------
(* The stage agents *)

ReqPrompt(user_story) ==
    <<"\n", ReqMarker, " into a clear, structured software specification.",
      "\n", "USER STORY:", "\n">>
    \o user_story
    \o <<"\n", "Return JSON with this schema: ... Rules: ...", "\n">>

(* RequirementsAgent.generate_spec *)
GenerateSpec(user_story, c) == AskJson(ReqPrompt(user_story), c)

CodePrompt(spec_) ==
    <<"\n", "You are generating a small but clean codebase for the given spec.",
      "\n", "SPEC JSON:", "\n">>
    \o Dumps(spec_)
    \o <<"\n", CodeMarker, " with: ... Constraints: ...", "\n">>

File(path, content) == [path |-> path, content |-> content]

(* out[path] = content on an insertion-ordered dict *)
DictSet(out, path, content) ==
    IF \E i \in 1..Len(out) : out[i].path = path
    THEN [i \in 1..Len(out) |->
            IF out[i].path = path THEN File(path, content) ELSE out[i]]
    ELSE Append(out, File(path, content))

(* The loop of generate_code_files: path = f["path"].strip(), then          *)
(* content = f["content"], then out[path] = content                        *)
RECURSIVE CollectFrom(_, _)
CollectFrom(items, out) ==
    IF items = <<>> THEN Return(out)
    ELSE LET f == Head(items) IN
         IF ~IsDict(f) THEN Raise("TypeError", <<>>)
         ELSE LET ms == Members(f) IN
              IF ~HasKey(ms, <<"path">>) THEN Raise("KeyError", <<>>)
              ELSE IF ~IsStr(Lookup(ms, <<"path">>)) THEN Raise("AttributeError", <<>>)
              ELSE IF ~HasKey(ms, <<"content">>) THEN Raise("KeyError", <<>>)
              ELSE CollectFrom(Tail(items),
                               DictSet(out, Strip(Unquote(Lookup(ms, <<"path">>))),
                                       Lookup(ms, <<"content">>)))

(* The loop over files, an exception raised before it passing through *)
CollectFiles(files, out) ==
    IF files.kind = "raise" THEN files ELSE CollectFrom(files.value, out)

(* The loop of generate_tests, the one statement                           *)
(* out[f["path"].strip()] = f["content"]: the right-hand side is evaluated *)
(* before the subscript of the target                                      *)
RECURSIVE CollectTestFrom(_, _)
CollectTestFrom(items, out) ==
    IF items = <<>> THEN Return(out)
    ELSE LET f == Head(items) IN
         IF ~IsDict(f) THEN Raise("TypeError", <<>>)
         ELSE LET ms == Members(f) IN
              IF ~HasKey(ms, <<"content">>) THEN Raise("KeyError", <<>>)
              ELSE IF ~HasKey(ms, <<"path">>) THEN Raise("KeyError", <<>>)
              ELSE IF ~IsStr(Lookup(ms, <<"path">>)) THEN Raise("AttributeError", <<>>)
              ELSE CollectTestFrom(Tail(items),
                                   DictSet(out, Strip(Unquote(Lookup(ms, <<"path">>))),
                                           Lookup(ms, <<"content">>)))

CollectTestFiles(files, out) ==
    IF files.kind = "raise" THEN files ELSE CollectTestFrom(files.value, out)

(* What "for f in files" iterates over: the items of a list; the keys of   *)
(* a dict and the characters of a str, which are strings                   *)
IterItems(files) ==
    IF IsList(files) THEN Elems(files)
    ELSE IF IsDict(files)
         THEN LET ms == Members(files) IN [i \in 1..Len(ms) |-> Str(ms[i].key)]
    ELSE [i \in 1..Len(Unquote(files)) |-> Str(<<Unquote(files)[i]>>)]

(* files = data.get("files", []) and what the loop is given; a raise when  *)
(* data has no get or files cannot be iterated                             *)
FilesOf(data) ==
    IF data.kind = "raise" THEN data
    ELSE IF ~IsDict(data.value) THEN Raise("AttributeError", <<>>)
    ELSE LET files == Get(Members(data.value), <<"files">>, <<"[", "]">>) IN
         IF ~(IsList(files) \/ IsDict(files) \/ IsStr(files))
         THEN Raise("TypeError", <<>>)
         ELSE Return(IterItems(files))

(* CodeAgent.generate_code_files *)
GenerateCodeFiles(spec_, c) == CollectFiles(FilesOf(AskJson(CodePrompt(spec_), c)), <<>>)

KeyPaths ==
    {<<"app", "/", "main.py">>, <<"app", "/", "routes.py">>, <<"app", "/", "models.py">>}

(* key_files as a decoded object *)
KeyFiles(generated_files) ==
    LET keep == SelectSeq(generated_files, LAMBDA f : f.path \in KeyPaths) IN
    JObject([i \in 1..Len(keep) |-> <<keep[i].path, keep[i].content>>])

TestPrompt(spec_, generated_files) ==
    <<"\n", TestMarker, " for a FastAPI app following this spec_.", "\n", "SPEC:", "\n">>
    \o Dumps(spec_)
    \o <<"\n", "KEY CODE FILES (for context):", "\n">>
    \o Dumps(KeyFiles(generated_files))
    \o <<"\n", "Requirements: ...", "\n">>

(* TestAgent.generate_tests *)
GenerateTests(spec_, generated_files, c) ==
    CollectTestFiles(FilesOf(AskJson(TestPrompt(spec_, generated_files), c)), <<>>)

-----------------------------------------------------------------------------
(* save_files.  The disk is a function from locations (sequences of path   *)
(* segments below "/") to nodes: a directory, or a file with its content.  *)
(* The location <<>> is "/", which always is a directory.                  *)

ProjectRoot == <<"/", "srv", "/", "proj">>

FileNode(text) == [dir |-> FALSE, text |-> text]

DirNode == [dir |-> TRUE, text |-> <<>>]

IsFile(disk_, loc) == loc \in DOMAIN disk_ /\ ~disk_[loc].dir

IsDirectory(disk_, loc) == loc = <<>> \/ (loc \in DOMAIN disk_ /\ disk_[loc].dir)

(* os.path.join(root_dir, rel_path) *)
JoinPath(root_dir, rel_path) ==
    IF At(rel_path, 1) = "/" THEN rel_path
    ELSE IF At(root_dir, Len(root_dir)) = "/" THEN root_dir \o rel_path
    ELSE root_dir \o <<"/">> \o rel_path

(* The segments between the "/" of a path *)
RECURSIVE SegmentsFrom(_, _)
SegmentsFrom(path, cur) ==
    IF path = <<>> THEN <<cur>>
    ELSE IF Head(path) = "/" THEN <<cur>> \o SegmentsFrom(Tail(path), <<>>)
    ELSE SegmentsFrom(Tail(path), Append(cur, Head(path)))

RECURSIVE DropEmptyTail(_)
DropEmptyTail(segs) ==
    IF segs # <<>> /\ segs[Len(segs)] = <<>>
    THEN DropEmptyTail(SubSeq(segs, 1, Len(segs) - 1))
    ELSE segs

(* The segments of os.path.dirname(abs_path): those before the last "/",   *)
(* without the slashes that end them                                       *)
DirSegments(abs_path) ==
    LET segs == SegmentsFrom(abs_path, <<>>) IN
    DropEmptyTail(SubSeq(segs, 1, Len(segs) - 1))

Parent(at) == IF at = <<>> THEN at ELSE SubSeq(at, 1, Len(at) - 1)

(* The location the operating system reaches for a sequence of segments *)
RECURSIVE Walk(_, _)
Walk(segs, at) ==
    IF segs = <<>> THEN at
    ELSE LET g == Head(segs) IN
         IF g = <<>> \/ g = <<".">> THEN Walk(Tail(segs), at)
         ELSE IF g = <<"..">> THEN Walk(Tail(segs), Parent(at))
         ELSE Walk(Tail(segs), Append(at, g))

Resolve(abs_path) == Walk(SegmentsFrom(abs_path, <<>>), <<>>)

Inside(root_dir, loc) ==
    LET r == Resolve(root_dir) IN
    Len(loc) > Len(r) /\ SubSeq(loc, 1, Len(r)) = r

(* os.makedirs(name, exist_ok=True) along the segments of name, from the   *)
(* directory at: every missing directory is created; a file where the last *)
(* segment leads is FileExistsError, a file on the way NotADirectoryError  *)
RECURSIVE MakeDirs(_, _, _)
MakeDirs(disk_, segs, at) ==
    IF segs = <<>> THEN [disk |-> disk_, err |-> "None"]
    ELSE LET g == Head(segs) IN
         IF g = <<>> \/ g = <<".">> THEN MakeDirs(disk_, Tail(segs), at)
         ELSE IF g = <<"..">> THEN MakeDirs(disk_, Tail(segs), Parent(at))
         ELSE LET child == Append(at, g) IN
              IF IsFile(disk_, child)
              THEN [disk |-> disk_,
                    err |-> IF Tail(segs) = <<>> THEN "FileExistsError"
                            ELSE "NotADirectoryError"]
              ELSE IF IsDirectory(disk_, child) THEN MakeDirs(disk_, Tail(segs), child)
              ELSE MakeDirs([l \in DOMAIN disk_ \cup {child} |->
                                IF l = child THEN DirNode ELSE disk_[l]],
                            Tail(segs), child)

(* Slip: open(abs_path, "a") *)
AppendFile(disk_, loc, text) ==
    [l \in DOMAIN disk_ \cup {loc} |->
        IF l = loc
        THEN FileNode((IF loc \in DOMAIN disk_ THEN disk_[loc].text ELSE <<>>) \o text)
        ELSE disk_[l]]

(* open(abs_path, "w") and fp.write(text) *)
WriteFile(disk_, loc, text) ==
    [l \in DOMAIN disk_ \cup {loc} |-> IF l = loc THEN FileNode(text) ELSE disk_[l]]

(* save_files of CodeAgent and of TestAgent (the same code): the disk and  *)
(* the written list after the loop, err set if makedirs, open or fp.write  *)
(* raised                                                                  *)
RECURSIVE SaveFrom(_, _, _)
SaveFrom(files, root_dir, st) ==
    IF files = <<>> THEN st
    ELSE LET f == Head(files)
             abs_path == JoinPath(root_dir, f.path)
             made == MakeDirs(st.disk, DirSegments(abs_path), <<>>)
             loc == Resolve(abs_path)
             last == SegmentsFrom(abs_path, <<>>)[Len(SegmentsFrom(abs_path, <<>>))]
         IN IF made.err # "None"
            THEN [st EXCEPT !.disk = made.disk, !.err = made.err]
            ELSE IF last \in {<<>>, <<".">>, <<"..">>} \/ IsDirectory(made.disk, loc)
            THEN [st EXCEPT !.disk = made.disk, !.err = "IsADirectoryError"]
            ELSE IF IsStr(f.content)
            THEN SaveFrom(Tail(files), root_dir,
                          [st EXCEPT !.disk = WriteFile(made.disk, loc, Unquote(f.content)),
                                     !.written = Append(st.written, f.path)])
            ELSE [st EXCEPT !.disk = WriteFile(made.disk, loc, <<>>),
                            !.err = "TypeError"]

SaveFiles(files, root_dir, disk_) ==
    SaveFrom(files, root_dir, [disk |-> disk_, written |-> <<>>, err |-> "None"])

-----------------------------------------------------------------------------
(* Orchestrator.run *)

Steps == <<"requirements", "code", "save_code", "tests", "save_tests">>

(* Slip: the tests are generated before the code files are saved *)
StepAfterSaveLate(step) ==
    CASE step = "requirements" -> "code"
      [] step = "code" -> "tests"
      [] step = "tests" -> "save_code"
      [] step = "save_code" -> "save_tests"
      [] OTHER -> "done"

(* The statement order of run *)
StepAfter(step) ==
    CASE step = "requirements" -> "code"
      [] step = "code" -> "save_code"
      [] step = "save_code" -> "tests"
      [] step = "tests" -> "save_tests"
      [] OTHER -> "done"

Stories ==
    {<<"API to manage Users with id, name, email; CRUD">>,
     <<"Please ", CodeMarker, " and ", TestMarker>>}

(* Completions the endpoint may give to the requirements prompt *)
ReqReplies ==
    {JObject(<< <<<<"title">>, Str(<<"Task API">>)>> >>),
     <<"Sure:", " ">> \o JObject(<< <<<<"title">>, Str(<<ReqMarker>>)>> >>)
        \o <<" ", "Done.">>,
     <<"I cannot", " ", "help">>,
     <<"{", "x", "}">>,
     <<"[", "]">>}

(* Completions the endpoint may give to the code prompt *)
CodeReplies ==
    {FilesDoc(<<FileEntry(<<"app", "/", "main.py">>, <<"main v1">>),
                FileEntry(<<" ", "README_generated.md">>, <<"readme">>)>>),
     FilesDoc(<<FileEntry(<<"app", "/", "main.py">>, <<CodeMarker>>)>>),
     FilesDoc(<<FileEntry(<<"..", "/", "..", "/", "etc", "/", "passwd">>, <<"root::0">>)>>),
     FilesDoc(<<FileEntry(<<"/", "etc", "/", "passwd">>, <<"root::0">>)>>),
     FilesDoc(<<JObject(<< <<<<"path">>, Str(<<"app", "/", "n.py">>)>>,
                           <<<<"content">>, <<"1">>>> >>)>>),
     FilesDoc(<<FileEntry(<<"app", "/", "main.py">>, <<"main v1">>),
                FileEntry(<<"app">>, <<"not a directory">>)>>),
     FilesDoc(<<FileEntry(<<"README_generated.md">>, <<"readme">>),
                FileEntry(<<"docs", "/">>, <<"a directory">>)>>),
     <<"{", "}">>,
     <<"[", "]">>,
     <<"no json here">>}

(* Completions the endpoint may give to the test prompt *)
TestReplies ==
    {FilesDoc(<<FileEntry(<<"tests", "/", "test_api.py">>, <<"tests v1">>)>>),
     FilesDoc(<<FileEntry(<<"app", "/", "main.py">>, <<"written by the test stage">>)>>),
     FilesDoc(<<FileEntry(<<"..", "/", "outside.py">>, <<"tests v1">>)>>),
     FilesDoc(<<FileEntry(<<"app", "/", "main.py", "/", "test_main.py">>, <<"tests v1">>)>>),
     FilesDoc(<<JObject(<< <<<<"path">>, <<"1">>>> >>)>>),
     JObject(<< <<<<"files">>, <<"[", "]">>>>,
                <<<<"files">>,
                  JArray(<<FileEntry(<<"tests", "/", "test_api.py">>, <<"tests v2">>)>>)>> >>),
     <<"{", "x", "}">>,
     <<"no json here">>}

PipelineFailures ==
    {Response("ConnectionError", 0, "none", NoContent),
     Response("ok", 500, "undecodable", NoContent),
     Response("ok", 200, "missing_key", NoContent)}

(* A completion whose content is null *)
NullCompletion == {Response("ok", 200, "content", NotStr("NoneType"))}

(* The responses of the endpoint to the requests of one chat call *)
Scripts(replies) ==
    [1..LoopBound(cfg.max_retries) ->
        PipelineFailures \cup Completions(replies) \cup NullCompletion]

EmptyDisk == [l \in {} |-> DirNode]

(* The project root, the directory main.py lies in, with nothing generated *)
RootDisk == [l \in {<< <<"srv">> >>, << <<"srv">>, <<"proj">> >>} |-> DirNode]

(* The project root with a file an earlier project left *)
StaleDisk ==
    [l \in DOMAIN RootDisk
            \cup {<< <<"srv">>, <<"proj">>, <<"app">> >>,
                  << <<"srv">>, <<"proj">>, <<"app">>, <<"main.py">> >>} |->
        IF l = << <<"srv">>, <<"proj">>, <<"app">>, <<"main.py">> >>
        THEN FileNode(<<"left by an earlier project">>)
        ELSE DirNode]

(* What a stage sees of a chat call: that it raised, or the value returned *)
Seen(c) == [failed |-> c.state = "raised", ret |-> c.ret]

(* What the chat calls of a stage can come to *)
ChatCalls(replies) == {Seen(ChatCall(cfg.max_retries, os)) : os \in Scripts(replies)}

NotCalled == [failed |-> FALSE, ret |-> NoContent]

NoReplay == [requirements |-> NotCalled, code |-> NotCalled, tests |-> NotCalled]

Entry(step, c, spec_in, files_in) ==
    [step |-> step, chat |-> c, spec_in |-> spec_in, files_in |-> files_in,
     disk_before |-> disk]

(* In a re-run the endpoint answers as it did in the first run *)
Replayed(stage, c) ==
    IF run = 1 THEN replay' = [replay EXCEPT ![stage] = c]
    ELSE c = replay[stage] /\ UNCHANGED replay

ChatVars == <<cfg, chat, chat_log>>

ExtractVars == <<ex_text, ex_result, ex_pc>>

(* main up to orchestrator.run: build_agents raises ValueError when the    *)
(* configuration is missing from the environment                           *)
StartPc == IF env THEN "requirements" ELSE "failed"

StartErr == IF env THEN "None" ELSE "ValueError"

InitRun ==
    /\ env \in BOOLEAN
    /\ pc = StartPc
    /\ run = 1
    /\ story \in Stories
    /\ spec = <<>>
    /\ code_files = <<>>
    /\ code_written = <<>>
    /\ test_files = <<>>
    /\ tests_written = <<>>
    /\ err = StartErr
    /\ disk \in {RootDisk, StaleDisk}
    /\ trace = <<>>
    /\ replay = NoReplay
    /\ first_disk = EmptyDisk

(* spec = self.requirements_agent.generate_spec(user_story) *)
StageRequirements ==
    /\ pc = "requirements"
    /\ \E c \in ChatCalls(ReqReplies) :
          LET r == GenerateSpec(story, c)
          IN /\ Replayed("requirements", c)
             /\ trace' = Append(trace, Entry("requirements", c, <<>>, <<>>))
             /\ IF r.kind = "return"
                THEN spec' = r.value /\ pc' = StepAfter("requirements") /\ err' = err
                ELSE spec' = spec /\ pc' = "failed" /\ err' = r.cls
    /\ UNCHANGED <<env, run, story, code_files, code_written, test_files, tests_written,
                   disk, first_disk>>

(* code_files = self.code_agent.generate_code_files(spec) *)
StageCode ==
    /\ pc = "code"
    /\ \E c \in ChatCalls(CodeReplies) :
          LET r == GenerateCodeFiles(spec, c)
          IN /\ Replayed("code", c)
             /\ trace' = Append(trace, Entry("code", c, spec, <<>>))
             /\ IF r.kind = "return"
                THEN code_files' = r.value /\ pc' = StepAfter("code") /\ err' = err
                ELSE code_files' = code_files /\ pc' = "failed" /\ err' = r.cls
    /\ UNCHANGED <<env, run, story, spec, code_written, test_files, tests_written,
                   disk, first_disk>>

(* code_written = self.code_agent.save_files(code_files, self.project_root) *)
SaveCode ==
    /\ pc = "save_code"
    /\ LET r == SaveFiles(code_files, ProjectRoot, disk) IN
          /\ disk' = r.disk
          /\ trace' = Append(trace, Entry("save_code", NotCalled, <<>>, code_files))
          /\ IF r.err = "None"
             THEN code_written' = r.written /\ pc' = StepAfter("save_code") /\ err' = err
             ELSE code_written' = code_written /\ pc' = "failed" /\ err' = r.err
    /\ UNCHANGED <<env, run, story, spec, code_files, test_files, tests_written,
                   replay, first_disk>>

(* test_files = self.test_agent.generate_tests(spec, code_files) *)
StageTests ==
    /\ pc = "tests"
    /\ \E c \in ChatCalls(TestReplies) :
          LET r == GenerateTests(spec, code_files, c)
          IN /\ Replayed("tests", c)
             /\ trace' = Append(trace, Entry("tests", c, spec, code_files))
             /\ IF r.kind = "return"
                THEN test_files' = r.value /\ pc' = StepAfter("tests") /\ err' = err
                ELSE test_files' = test_files /\ pc' = "failed" /\ err' = r.cls
    /\ UNCHANGED <<env, run, story, spec, code_files, code_written, tests_written,
                   disk, first_disk>>

(* tests_written = self.test_agent.save_files(test_files, self.project_root) *)
(* and the return of the result                                            *)
SaveTests ==
    /\ pc = "save_tests"
    /\ LET r == SaveFiles(test_files, ProjectRoot, disk) IN
          /\ disk' = r.disk
          /\ trace' = Append(trace, Entry("save_tests", NotCalled, <<>>, test_files))
          /\ IF r.err = "None"
             THEN tests_written' = r.written /\ pc' = StepAfter("save_tests") /\ err' = err
             ELSE tests_written' = tests_written /\ pc' = "failed" /\ err' = r.err
    /\ UNCHANGED <<env, run, story, spec, code_files, code_written, test_files,
                   replay, first_disk>>

(* main is started again on the same project root with the same story *)
Rerun ==
    /\ pc \in {"done", "failed"}
    /\ run < MaxRuns
    /\ run' = run + 1
    /\ pc' = StartPc
    /\ spec' = <<>>
    /\ code_files' = <<>>
    /\ code_written' = <<>>
    /\ test_files' = <<>>
    /\ tests_written' = <<>>
    /\ err' = StartErr
    /\ trace' = <<>>
    /\ first_disk' = IF run = 1 THEN disk ELSE first_disk
    /\ UNCHANGED <<env, story, disk, replay>>

RunVars ==
    <<env, pc, run, story, spec, code_files, code_written, test_files, tests_written,
      err, disk, trace, replay, first_disk>>

RunIdle ==
    /\ env = TRUE
    /\ pc = "off"
    /\ run = 0
    /\ story = <<>>
    /\ spec = <<>>
    /\ code_files = <<>>
    /\ code_written = <<>>
    /\ test_files = <<>>
    /\ tests_written = <<>>
    /\ err = "None"
    /\ disk = EmptyDisk
    /\ trace = <<>>
    /\ replay = NoReplay
    /\ first_disk = EmptyDisk

-----------------------------------------------------------------------------
(* SpecExtract: the parsing step applied to every short text *)

RECURSIVE SeqsUpTo(_, _)
SeqsUpTo(S, n) ==
    IF n = 0 THEN {<<>>}
    ELSE LET shorter == SeqsUpTo(S, n - 1) IN
         shorter \cup {Append(s, a) : s \in {x \in shorter : Len(x) = n - 1}, a \in S}

(* Longer texts: objects with a key that occurs twice, bare and in prose *)
RepeatedKeyTexts ==
    {JObject(<< <<<<"x">>, <<"1">>>>, <<<<"x">>, <<"1", "1">>>> >>),
     <<"Sure:", " ">>
        \o JObject(<< <<<<"x">>, <<"1">>>>, <<<<"1">>, <<"1">>>>, <<<<"x">>, <<"[", "]">>>> >>)
        \o <<" ", "Done.">>}

ExtractTexts == SeqsUpTo(ExtractAlphabet, MaxTextLen) \cup RepeatedKeyTexts

ExtractIdle ==
    /\ ex_text = <<>>
    /\ ex_result = Return(<<>>)
    /\ ex_pc = "off"

ChatOff ==
    /\ cfg = [max_retries |-> DefaultMaxRetries]
    /\ chat = ChatIdle
    /\ chat_log = <<>>

InitExtract ==
    /\ ex_text \in ExtractTexts
    /\ ex_result = Return(<<>>)
    /\ ex_pc = "ready"

(* The parsing step of ask_json on ex_text *)
Extract ==
    /\ ex_pc = "ready"
    /\ ex_result' = Extracted(ex_text)
    /\ ex_pc' = "done"
    /\ UNCHANGED ex_text

vars ==
    <<ex_text, ex_result, ex_pc, env, cfg, chat, chat_log, pc, run, story, spec,
      code_files, code_written, test_files, tests_written, err, disk, trace,
      replay, first_disk>>

-----------------------------------------------------------------------------
(* Specifications *)

InitExtractSpec == InitExtract /\ ChatOff /\ RunIdle

NextExtract == Extract /\ UNCHANGED ChatVars /\ UNCHANGED RunVars

SpecExtract == InitExtractSpec /\ [][NextExtract]_vars

InitChatSpec == InitChat /\ ExtractIdle /\ RunIdle

NextChat ==
    \/ ChatBegin /\ UNCHANGED ExtractVars /\ UNCHANGED RunVars
    \/ ChatPost /\ UNCHANGED ExtractVars /\ UNCHANGED RunVars

SpecChat == InitChatSpec /\ [][NextChat]_vars

Init == InitRun /\ ChatOff /\ ExtractIdle

Next ==
    \/ StageRequirements /\ UNCHANGED ChatVars /\ UNCHANGED ExtractVars
    \/ StageCode /\ UNCHANGED ChatVars /\ UNCHANGED ExtractVars
    \/ SaveCode /\ UNCHANGED ChatVars /\ UNCHANGED ExtractVars
    \/ StageTests /\ UNCHANGED ChatVars /\ UNCHANGED ExtractVars
    \/ SaveTests /\ UNCHANGED ChatVars /\ UNCHANGED ExtractVars
    \/ Rerun /\ UNCHANGED ChatVars /\ UNCHANGED ExtractVars

Spec == Init /\ [][Next]_vars

-----------------------------------------------------------------------------
(* Properties of OpenAICompatibleClient.chat (SpecChat) *)

StatusOk(o) == o.net = "ok" /\ o.status < 400

Succeeds(o) == StatusOk(o) /\ o.body = "content"

Last(s) == s[Len(s)]

(* C1 as stated: with max_retries N >= 0 a call issues at most N+1 POST    *)
(* requests, returns the completion text of the first request whose status *)
(* is below 400 and issues no request after it, retries after every        *)
(* transport error or status >= 400 while attempts remain, and raises      *)
(* LLMError carrying the last attempt's error when all N+1 requests fail.  *)
C1_AsStated ==
    cfg.max_retries >= 0 /\ chat.state # "idle" =>
        /\ Len(chat_log) <= cfg.max_retries + 1
        /\ \A i \in 1..Len(chat_log) :
              StatusOk(chat_log[i]) =>
                  /\ i = Len(chat_log)
                  /\ chat.state = "returned"
                  /\ chat.ret = chat_log[i].content
        /\ (\A i \in 1..Len(chat_log) : ~StatusOk(chat_log[i])) =>
              IF Len(chat_log) < cfg.max_retries + 1
              THEN chat.state = "loop"
              ELSE /\ chat.state = "raised"
                   /\ chat.raised.cls = "LLMError"
                   /\ chat.raised.cause = AttemptError(Last(chat_log))

(* C1 amended: the same, where a request succeeds only if its status is    *)
(* below 400 and its body decodes to choices[0].message.content; a         *)
(* response with status below 400 and any other body is a failed attempt,  *)
(* retried like a transport error or a status >= 400.                      *)
C1_RetryContract ==
    cfg.max_retries >= 0 /\ chat.state # "idle" =>
        /\ Len(chat_log) <= cfg.max_retries + 1
        /\ \A i \in 1..Len(chat_log) :
              Succeeds(chat_log[i]) =>
                  /\ i = Len(chat_log)
                  /\ chat.state = "returned"
                  /\ chat.ret = chat_log[i].content
        /\ (\A i \in 1..Len(chat_log) : ~Succeeds(chat_log[i])) =>
              IF Len(chat_log) < cfg.max_retries + 1
              THEN chat.state = "loop"
              ELSE /\ chat.state = "raised"
                   /\ chat.raised.cls = "LLMError"
                   /\ chat.raised.cause = AttemptError(Last(chat_log))

(* A call that gave up after three failed requests of different kinds, the *)
(* first of them a status-200 response with an undecodable body            *)
C1_Witness ==
    /\ cfg.max_retries = 2
    /\ chat.state = "raised"
    /\ Len(chat_log) = 3
    /\ StatusOk(chat_log[1])
    /\ chat_log[2].net = "Timeout"
    /\ chat_log[3].status = 500

-----------------------------------------------------------------------------
(* Properties of the parsing step of ask_json (SpecExtract) *)

NoObjectSpan(t) ==
    \/ Find(t, "{") = 0
    \/ RFind(t, "}") = 0
    \/ Find(t, "{") > RFind(t, "}")

(* C6 as stated: a text with no "{", or no "}", or whose first "{" comes   *)
(* after its last "}" makes extract_json fail with MalformedOutput         *)
(* (ValueError) and return no value.                                       *)
C6_AsStated ==
    ex_pc = "done" /\ NoObjectSpan(ex_text) =>
        ex_result.kind = "raise" /\ IsValueError(ex_result.cls)

BothParsesFail(t) ==
    /\ ~Loads(Strip(t)).ok
    /\ \/ NoObjectSpan(Strip(t))
       \/ ~Loads(SubSeq(Strip(t), Find(Strip(t), "{"), RFind(Strip(t), "}"))).ok

(* C7 as stated: when the strict parse and the parse of the span from the  *)
(* first "{" to the last "}" both fail (or the span does not exist), the   *)
(* error raised is MalformedOutput carrying the first 400 characters of    *)
(* the text.                                                               *)
C7_AsStated ==
    ex_pc = "done" /\ BothParsesFail(ex_text) =>
        /\ ex_result.kind = "raise"
        /\ ex_result.cls = "ValueError"
        /\ ex_result.preview = Take(Strip(ex_text), PreviewLen)

RECURSIVE BraceDepths(_, _)
BraceDepths(t, d) ==
    IF t = <<>> THEN <<d>>
    ELSE <<d>> \o BraceDepths(Tail(t), IF Head(t) = "{" THEN d + 1
                                       ELSE IF Head(t) = "}" THEN d - 1 ELSE d)

(* Every brace of t is matched inside t *)
BracesBalanced(t) ==
    LET ds == BraceDepths(t, 0) IN
    /\ \A i \in 1..Len(ds) : ds[i] >= 0
    /\ Last(ds) = 0

(* The ways to read t as prefix + object + suffix, the object a valid JSON *)
(* object text from its "{" to its "}"                                     *)
Embeddings(t) ==
    {ij \in (1..Len(t)) \X (1..Len(t)) :
        /\ t[ij[1]] = "{"
        /\ t[ij[2]] = "}"
        /\ ParseValue(t, ij[1]) = ij[2] + 1}

(* C8 as stated: for a text prefix + object + suffix, the object valid     *)
(* JSON and prefix and suffix without unbalanced braces, extract_json      *)
(* returns exactly the embedded object.                                    *)
C8_AsStated ==
    ex_pc = "done" =>
        \A ij \in Embeddings(ex_text) :
            /\ BracesBalanced(SubSeq(ex_text, 1, ij[1] - 1))
            /\ BracesBalanced(SubSeq(ex_text, ij[2] + 1, Len(ex_text)))
            => ex_result = Return(Loads(SubSeq(ex_text, ij[1], ij[2])).value)

-----------------------------------------------------------------------------
(* Properties of the pipeline (Spec) *)

StageSteps == {"requirements", "code", "tests"}

(* The prompt the stage of trace entry e passed to ask_json *)
PromptOf(e) ==
    CASE e.step = "requirements" -> ReqPrompt(story)
      [] e.step = "code" -> CodePrompt(e.spec_in)
      [] OTHER -> TestPrompt(e.spec_in, e.files_in)

(* The text the stage of trace entry e got back from ask *)
ObtainedText(e) ==
    IF e.chat.failed THEN MockResponse(PromptOf(e) \o StrictSuffix) ELSE e.chat.ret.text

(* The stage of trace entry e got a text back: the mock, or a str content *)
ObtainedIsText(e) == e.chat.failed \/ e.chat.ret.type = "str"

StageMock(step) ==
    CASE step = "requirements" -> MockSpecText
      [] step = "code" -> MockCodeText
      [] OTHER -> MockTestText

AllChatsFailed ==
    \A i \in 1..Len(trace) : trace[i].step \in StageSteps => trace[i].chat.failed

MockCodeFiles ==
    <<File(<<"app", "/", "main.py">>, Str(<<"mock main source">>)),
      File(<<"app", "/", "models.py">>, Str(<<"mock models source">>)),
      File(<<"app", "/", "routes.py">>, Str(<<"mock routes source">>)),
      File(<<"requirements.txt">>, Str(<<"mock requirements">>))>>

MockTestFiles ==
    <<File(<<"tests", "/", "test_api.py">>, Str(<<"mock test source">>))>>

(* C2: while every chat call of the run has failed, no exception leaves a  *)
(* stage or run, and each stage that has run returned the fixed mock       *)
(* content of its own schema: the specification object, the four code     *)
(* files, the one test file.                                               *)
C2_DegradedMode ==
    env /\ run >= 1 /\ AllChatsFailed =>
        /\ pc # "failed"
        /\ err = "None"
        /\ Len(trace) >= 1 => IsDict(spec) /\ spec = Canon(MockSpecText)
        /\ Len(trace) >= 2 => code_files = MockCodeFiles
        /\ Len(trace) >= 4 => test_files = MockTestFiles

(* A run that completed offline on the story that quotes the marker        *)
(* phrases of the code and test prompts                                    *)
C2_Witness ==
    /\ run = 1
    /\ pc = "done"
    /\ AllChatsFailed
    /\ Contains(story, CodeMarker)
    /\ Len(tests_written) = 1

(* The files of a set are on disk d, each location holding the content of  *)
(* a file of the set that resolves to it                                   *)
OnDisk(files, d) ==
    \A k \in 1..Len(files) :
        LET loc == Resolve(JoinPath(ProjectRoot, files[k].path)) IN
        /\ loc \in DOMAIN d
        /\ \E m \in 1..Len(files) :
              /\ Resolve(JoinPath(ProjectRoot, files[m].path)) = loc
              /\ d[loc] = FileNode(Unquote(files[m].content))

(* C3: when the text a stage obtained parses neither strictly nor by the   *)
(* fallback, that stage is the last step of the run, run ends with a       *)
(* ValueError (MalformedOutput), nothing is written afterwards, and the    *)
(* code files written before a failing test stage are still on disk.       *)
C3_MalformedAborts ==
    \A i \in 1..Len(trace) :
        /\ trace[i].step \in StageSteps
        /\ ObtainedIsText(trace[i])
        /\ BothParsesFail(ObtainedText(trace[i]))
        =>
            /\ i = Len(trace)
            /\ pc = "failed"
            /\ IsValueError(err)
            /\ disk = trace[i].disk_before
            /\ tests_written = <<>>
            /\ trace[i].step = "tests" =>
                  /\ code_written = [k \in 1..Len(code_files) |-> code_files[k].path]
                  /\ OnDisk(code_files, disk)

(* The test stage got unparseable text after the code files were written *)
C3_Witness ==
    /\ pc = "failed"
    /\ Len(trace) = 4
    /\ err = "JSONDecodeError"
    /\ Len(code_written) = 2
    /\ BothParsesFail(ObtainedText(trace[4]))

(* C4: the steps of a run happen in the order requirements, code, save     *)
(* code, tests, save tests, each after the previous one completed; the     *)
(* code stage is given the specification the requirements stage returned,  *)
(* the test stage that specification and the code stage's files, which are *)
(* on disk when the test stage is invoked.                                 *)
C4_StageOrder ==
    /\ Len(trace) <= Len(Steps)
    /\ \A i \in 1..Len(trace) : trace[i].step = Steps[i]
    /\ pc \notin {"failed", "off"} =>
          pc = IF Len(trace) < Len(Steps) THEN Steps[Len(trace) + 1] ELSE "done"
    /\ Len(trace) >= 2 =>
          trace[2].spec_in = GenerateSpec(story, trace[1].chat).value
    /\ Len(trace) >= 3 =>
          trace[3].files_in = GenerateCodeFiles(trace[2].spec_in, trace[2].chat).value
    /\ Len(trace) >= 4 =>
          /\ trace[4].spec_in = trace[2].spec_in
          /\ trace[4].files_in = trace[3].files_in
          /\ OnDisk(trace[4].files_in, trace[4].disk_before)
    /\ Len(trace) >= 5 =>
          trace[5].files_in =
              GenerateTests(trace[4].spec_in, trace[4].files_in, trace[4].chat).value

(* A complete run on real model output *)
C4_Witness ==
    /\ pc = "done"
    /\ Len(trace) = 5
    /\ ~trace[1].chat.failed /\ ~trace[2].chat.failed /\ ~trace[4].chat.failed
    /\ Len(code_written) = 2
    /\ Len(tests_written) = 1

(* C5 as stated: every file save_files writes lies inside the project      *)
(* root; an entry whose path escapes the root is rejected, nothing being   *)
(* written for it.                                                         *)
C5_AsStated == \A loc \in DOMAIN disk : IsFile(disk, loc) => Inside(ProjectRoot, loc)

(* C9: when a re-run on the same project root with the same stage outputs  *)
(* has ended, the disk is exactly as the first run left it: the same       *)
(* locations, each with the same content.                                  *)
C9_RerunIdempotent ==
    run >= 2 /\ pc \in {"done", "failed"} => disk = first_disk

(* A completed re-run in which the test stage overwrote a code file *)
C9_Witness ==
    /\ run = 2
    /\ pc = "done"
    /\ Len(code_written) = 2
    /\ tests_written = << <<"app", "/", "main.py">> >>
    /\ disk[<< <<"srv">>, <<"proj">>, <<"app">>, <<"main.py">> >>]
          = FileNode(<<"written by the test stage">>)

(* C10 as stated: whenever the chat call of a stage fails, the text        *)
(* substituted is the fixed response of that same stage, whatever the      *)
(* story and the earlier stages' outputs embedded in the prompt.           *)
C10_AsStated ==
    \A i \in 1..Len(trace) :
        trace[i].step \in StageSteps /\ trace[i].chat.failed =>
            ObtainedText(trace[i]) = StageMock(trace[i].step)

====
